---- MODULE Spec2Model ----
(***************************************************************************)
(* streamlit_app.py: the site visit report form.  The model follows one    *)
(* run of the script: the weather lookup at load, the "Generate & Email    *)
(* Report" handler, and generate_pdf step by step (header, survey loop,    *)
(* summary loop, image loop, save), then send_email and the cleanup.       *)
(*                                                                         *)
(* Lengths are in points on a letter page (612 x 792).  A question is a    *)
(* number: 1..9 are the nine questions of the form in the order the form   *)
(* asks them, larger numbers are other keys a caller may pass.             *)
(***************************************************************************)
EXTENDS Integers, Sequences, FiniteSets

VARIABLES
    pc,                \* position in the script
    temperature_f,     \* None, or <<the reading in tenths of a degree F>>
    address,           \* TRUE iff address.strip() is non-empty
    survey_responses,  \* the keys of the dict, in insertion order
    image_files,       \* the image list handed to generate_pdf
    tmp_pdf,           \* TRUE iff the temporary PDF file exists on disk
    c,                 \* the canvas
    y_pos, x_offset, count,
    i,                 \* survey entries consumed by the survey loop
    j,                 \* summary lines consumed by the summary loop
    idx                \* images consumed by the image loop

vars == <<pc, temperature_f, address, survey_responses, image_files, tmp_pdf,
          c, y_pos, x_offset, count, i, j, idx>>

---------------------------------------------------------------------------
(* Bounds of the model *)

MaxEntries == 18
MaxLines == 24
MaxImages == 3

---------------------------------------------------------------------------
(* Constants of the program *)

\* temperature_f is None or a one-element tuple holding the reading
None == <<>>

height == 792
img_max_w == 200
gap == 20
left_margin == 50

TopY == height - 50

Choices == {"N/A", "No", "Yes"}

\* the nine questions, in the order the form stores them
Canonical == <<1, 2, 3, 4, 5, 6, 7, 8, 9>>

Reverse(s) == [k \in 1..Len(s) |-> s[Len(s) + 1 - k]]

\* temp_c * 9/5 + 32 rounded to one decimal, on tenths of a degree
\* (exact for the readings of TempsC, which are multiples of 0.5 C)
ToFahrenheit(temp_c) == <<(temp_c * 9) \div 5 + 320>>

TempsC == {-50, 205}

\* an upload: ok is FALSE when ImageReader cannot decode it
BadImage == [ok |-> FALSE, iw |-> 0, ih |-> 0]
WideImage == [ok |-> TRUE, iw |-> 400, ih |-> 200]
TallImage == [ok |-> TRUE, iw |-> 200, ih |-> 400]
ImageKinds == {BadImage, WideImage, TallImage}

SeqsUpTo(S, n) == UNION {[1..m -> S] : m \in 0..n}

ImageLists == SeqsUpTo(ImageKinds, MaxImages)

\* img_h = img_max_w * (ih / iw)
ImgH(img) == (img_max_w * img.ih) \div img.iw

---------------------------------------------------------------------------
(* The canvas: pages emitted so far, the calls of the last step, the       *)
(* images drawn on the page being composed, and the images drawn in all.   *)

Op(what, x, y, n, tok) == [what |-> what, x |-> x, y |-> y, n |-> n, tok |-> tok]

ShowPage == Op("showPage", 0, 0, 0, "")

NewCanvas == [pages |-> 0, ops |-> <<>>, imgs |-> <<>>, drawn |-> 0]

IsShow(op) == op.what = "showPage"

Shows(ops) == Cardinality({k \in 1..Len(ops) : IsShow(ops[k])})

ImageDraws(ops) == SelectSeq(ops, LAMBDA op : op.what = "image")

LastShow(ops) ==
    LET S == {k \in 1..Len(ops) : IsShow(ops[k])}
    IN  IF S = {} THEN 0 ELSE CHOOSE k \in S : \A m \in S : m <= k

\* the canvas after the calls ops, in order
Emit(cv, ops) ==
    [pages |-> cv.pages + Shows(ops),
     ops   |-> ops,
     imgs  |-> IF LastShow(ops) = 0
               THEN cv.imgs \o ImageDraws(ops)
               ELSE ImageDraws(SubSeq(ops, LastShow(ops) + 1, Len(ops))),
     drawn |-> cv.drawn + Len(ImageDraws(ops))]

---------------------------------------------------------------------------
(* The page-break tests of generate_pdf *)

\* line 89 and line 115: a section header needs room below it
SectionBreak(y) == y < 200

\* the margin taken from the top edge of the page
SurveyBreakFromTop(y) == y < height - 120

\* the margin short of a digit
SurveyBreakNoMargin(y) == y < 20

\* line 106: after a survey entry
SurveyBreak(y) == y < 120

\* line 126: after a summary line
SummaryBreak(y) == y < 120

\* line 132: before the images
ImagesBreak(y) == y < 300

\* the test against the edge of the page instead of the bottom margin
NeedsImageBreakAtEdge(y, img_h) == y - img_h < 0

\* line 149: the image would reach below the bottom margin
NeedsImageBreak(y, img_h) == y - img_h < 50

---------------------------------------------------------------------------
(* The script at load: the weather lookup, lines 30-48 *)

LoadPage ==
    /\ pc = "load"
    /\ \E ok \in BOOLEAN :
          IF ok
          THEN \E temp_c \in TempsC : temperature_f' = ToFahrenheit(temp_c)
          ELSE temperature_f' = None
    /\ pc' = "form"
    /\ UNCHANGED <<address, survey_responses, image_files, tmp_pdf, c,
                   y_pos, x_offset, count, i, j, idx>>

(* The button, lines 338-355: the required fields, then generate_pdf is    *)
(* entered and creates its temporary file and canvas, lines 63-65.         *)
ClickGenerate ==
    /\ pc = "form"
    /\ \E filled \in BOOLEAN, addr \in BOOLEAN, imgs \in ImageLists :
          IF ~filled
          THEN /\ pc' = "rejected"
               /\ UNCHANGED <<address, image_files, tmp_pdf, c>>
          ELSE /\ pc' = "header"
               /\ address' = addr
               /\ image_files' = imgs
               /\ tmp_pdf' = TRUE
               /\ c' = NewCanvas
    /\ UNCHANGED <<temperature_f, survey_responses, y_pos, x_offset, count,
                   i, j, idx>>

---------------------------------------------------------------------------
(* generate_pdf *)

\* lines 84-86
TemperatureOps(temperature, y) ==
    IF temperature # None
    THEN <<Op("temp", left_margin, y, temperature[1], "")>>
    ELSE <<>>

\* lines 68-86
Header ==
    /\ pc = "header"
    /\ LET y0 == height - 100
           y1 == IF address THEN y0 - 20 ELSE y0
           y2 == y1 - 20
           y3 == IF temperature_f # None THEN y2 - 20 ELSE y2
           ops == <<Op("title", left_margin, height - 50, 0, ""),
                    Op("visitor", left_margin, height - 80, 0, ""),
                    Op("date", 300, height - 80, 0, "")>>
                  \o (IF address
                      THEN <<Op("address", left_margin, y0, 0, "")>>
                      ELSE <<>>)
                  \o <<Op("time", left_margin, y1, 0, "")>>
                  \o TemperatureOps(temperature_f, y2)
       IN  /\ c' = Emit(c, ops)
           /\ y_pos' = y3
    /\ pc' = "survey_header"
    /\ UNCHANGED <<temperature_f, address, survey_responses, image_files,
                   tmp_pdf, x_offset, count, i, j, idx>>

\* lines 89-96
SurveyHeader ==
    /\ pc = "survey_header"
    /\ LET brk == SectionBreak(y_pos)
           y0  == IF brk THEN TopY ELSE y_pos
           ops == (IF brk THEN <<ShowPage>> ELSE <<>>)
                  \o <<Op("survey_header", left_margin, y0, 0, "")>>
       IN  /\ c' = Emit(c, ops)
           /\ y_pos' = y0 - 20
    /\ pc' = "survey"
    /\ i' = 0
    /\ UNCHANGED <<temperature_f, address, survey_responses, image_files,
                   tmp_pdf, x_offset, count, j, idx>>

\* the value of a dict entry: a description is only asked for No or Yes
\* (lines 241-245); desc is TRUE iff desc.strip() is non-empty
EntryValues == {v \in Choices \X BOOLEAN : v[2] => v[1] # "N/A"}

\* lines 106-112: the calls of a page break of the survey loop
SurveyBreakOps == <<ShowPage, Op("survey_continued", left_margin, TopY, 0, "")>>

\* lines 98-112, one iteration
SurveyEntry ==
    /\ pc = "survey"
    /\ i < Len(survey_responses)
    /\ \E v \in EntryValues :
          LET question == survey_responses[i + 1]
              choice == v[1]
              desc == v[2]
              y1  == y_pos - 18
              y2  == IF desc THEN y1 - 14 ELSE y1
              brk == SurveyBreak(y2)
              ops == <<Op("question", 60, y_pos, question, choice)>>
                     \o (IF desc
                         THEN <<Op("comment", 72, y1, question, "")>>
                         ELSE <<>>)
                     \o (IF brk THEN SurveyBreakOps ELSE <<>>)
          IN  /\ c' = Emit(c, ops)
              /\ y_pos' = IF brk THEN TopY - 20 ELSE y2
    /\ i' = i + 1
    /\ UNCHANGED <<pc, temperature_f, address, survey_responses, image_files,
                   tmp_pdf, x_offset, count, j, idx>>

\* lines 115-122
SummaryHeader ==
    /\ pc = "survey"
    /\ i = Len(survey_responses)
    /\ LET brk == SectionBreak(y_pos)
           y0  == IF brk THEN TopY ELSE y_pos
           ops == (IF brk THEN <<ShowPage>> ELSE <<>>)
                  \o <<Op("summary_header", left_margin, y0, 0, "")>>
       IN  /\ c' = Emit(c, ops)
           /\ y_pos' = y0 - 20
    /\ pc' = "summary"
    /\ j' = 0
    /\ UNCHANGED <<temperature_f, address, survey_responses, image_files,
                   tmp_pdf, x_offset, count, i, idx>>

\* the page break of the survey loop copied into the summary loop
SummaryBreakOpsWithHeader == SurveyBreakOps

\* lines 126-129: the calls of a page break of the summary loop
SummaryBreakOps == <<ShowPage>>

\* lines 123-129, one iteration; last is TRUE iff summary.split("\n") has
\* no further line
SummaryLine ==
    /\ pc = "summary"
    /\ j < MaxLines
    /\ \E last \in BOOLEAN :
          /\ (j + 1 = MaxLines) => last
          /\ pc' = IF last THEN "images" ELSE "summary"
    /\ LET y1  == y_pos - 16
           brk == SummaryBreak(y1)
           ops == <<Op("summary_line", 60, y_pos, j + 1, "")>>
                  \o (IF brk THEN SummaryBreakOps ELSE <<>>)
       IN  /\ c' = Emit(c, ops)
           /\ y_pos' = IF brk THEN TopY ELSE y1
    /\ j' = j + 1
    /\ UNCHANGED <<temperature_f, address, survey_responses, image_files,
                   tmp_pdf, x_offset, count, i, idx>>

\* lines 132-139
ImagesStart ==
    /\ pc = "images"
    /\ LET brk == ImagesBreak(y_pos)
       IN  /\ c' = Emit(c, IF brk THEN <<ShowPage>> ELSE <<>>)
           /\ y_pos' = IF brk THEN TopY ELSE y_pos
    /\ x_offset' = left_margin
    /\ count' = 0
    /\ idx' = 0
    /\ pc' = "image_loop"
    /\ UNCHANGED <<temperature_f, address, survey_responses, image_files,
                   tmp_pdf, i, j>>

\* count += 1 moved out of the try block
SkipImageCounted ==
    /\ c' = Emit(c, <<>>)
    /\ count' = count + 1
    /\ UNCHANGED <<y_pos, x_offset>>

\* lines 142-143 and 165-166: ImageReader raises, the iteration is over
SkipImage ==
    /\ c' = Emit(c, <<>>)
    /\ UNCHANGED <<y_pos, x_offset, count>>

\* lines 144-163
PlaceImage(img) ==
    LET img_h == ImgH(img)
        brk == NeedsImageBreak(y_pos, img_h)
        y0  == IF brk THEN TopY ELSE y_pos
        x0  == IF brk THEN left_margin ELSE x_offset
        n0  == IF brk THEN 0 ELSE count
        ops == (IF brk THEN <<ShowPage>> ELSE <<>>)
               \o <<Op("image", x0, y0 - img_h, img_h, "")>>
    IN  /\ c' = Emit(c, ops)
        /\ IF n0 % 2 = 0
           THEN /\ x_offset' = x0 + img_max_w + gap
                /\ y_pos' = y0
           ELSE /\ x_offset' = left_margin
                /\ y_pos' = y0 - (img_h + gap)
        /\ count' = n0 + 1

\* lines 141-166, one iteration
ImageStep ==
    /\ pc = "image_loop"
    /\ idx < Len(image_files)
    /\ LET img_bytes == image_files[idx + 1]
       IN  IF img_bytes.ok THEN PlaceImage(img_bytes) ELSE SkipImage
    /\ idx' = idx + 1
    /\ UNCHANGED <<pc, temperature_f, address, survey_responses, image_files,
                   tmp_pdf, i, j>>

\* lines 168-170: c.save() writes the file and may raise (the disk is full,
\* the file was removed); nothing in generate_pdf or its caller catches it
Finish ==
    /\ pc = "image_loop"
    /\ idx = Len(image_files)
    /\ c' = Emit(c, <<ShowPage>>)
    /\ \E saved \in BOOLEAN : pc' = IF saved THEN "returned" ELSE "raised"
    /\ UNCHANGED <<temperature_f, address, survey_responses, image_files,
                   tmp_pdf, y_pos, x_offset, count, i, j, idx>>

---------------------------------------------------------------------------
(* The rest of the handler *)

\* lines 358-367: the send, whose exception is caught and reported
SendEmail ==
    /\ pc = "returned"
    /\ \E ok \in BOOLEAN : pc' = IF ok THEN "sent" ELSE "send_failed"
    /\ UNCHANGED <<temperature_f, address, survey_responses, image_files,
                   tmp_pdf, c, y_pos, x_offset, count, i, j, idx>>

\* lines 370-373
Cleanup ==
    /\ pc \in {"sent", "send_failed"}
    /\ tmp_pdf' = FALSE
    /\ pc' = "done"
    /\ UNCHANGED <<temperature_f, address, survey_responses, image_files,
                   c, y_pos, x_offset, count, i, j, idx>>

---------------------------------------------------------------------------
(* Spec: one run of the script *)

Init ==
    /\ pc = "load"
    /\ temperature_f = None
    /\ address = FALSE
    /\ survey_responses = Canonical
    /\ image_files = <<>>
    /\ tmp_pdf = FALSE
    /\ c = NewCanvas
    /\ y_pos = 0
    /\ x_offset = 0
    /\ count = 0
    /\ i = 0
    /\ j = 0
    /\ idx = 0

Render ==
    \/ Header
    \/ SurveyHeader
    \/ SurveyEntry
    \/ SummaryHeader
    \/ SummaryLine
    \/ ImagesStart
    \/ ImageStep
    \/ Finish

Next ==
    \/ LoadPage
    \/ ClickGenerate
    \/ Render
    \/ SendEmail
    \/ Cleanup

Spec == Init /\ [][Next]_vars

(* SpecRender: generate_pdf called with any arguments, from the point      *)
(* where its file and canvas exist                                         *)

KeyOrders ==
    {Canonical, Reverse(Canonical)} \cup {[k \in 1..n |-> k] : n \in 0..MaxEntries}

RenderImageLists == {<<>>, <<TallImage, BadImage, WideImage>>}

InitRender ==
    /\ pc = "header"
    /\ temperature_f \in {None} \cup {ToFahrenheit(t) : t \in TempsC}
    /\ address \in BOOLEAN
    /\ survey_responses \in KeyOrders
    /\ image_files \in RenderImageLists
    /\ tmp_pdf = TRUE
    /\ c = NewCanvas
    /\ y_pos = 0
    /\ x_offset = 0
    /\ count = 0
    /\ i = 0
    /\ j = 0
    /\ idx = 0

SpecRender == InitRender /\ [][Render]_vars

---------------------------------------------------------------------------
(* Properties *)

Range(s) == {s[k] : k \in 1..Len(s)}

MaxOf(S) == CHOOSE m \in S : \A n \in S : n <= m

Decodable(imgs) == Len(SelectSeq(imgs, LAMBDA img : img.ok))

Has(ops, what) == \E k \in 1..Len(ops) : ops[k].what = what

AfterRender == {"returned", "raised", "sent", "send_failed", "done"}

\* the image loop is about to process an image that does not decode
AtBadImage ==
    /\ pc = "image_loop"
    /\ idx < Len(image_files)
    /\ ~image_files[idx + 1].ok

\* the image loop is about to process an image that decodes
AtGoodImage ==
    /\ pc = "image_loop"
    /\ idx < Len(image_files)
    /\ image_files[idx + 1].ok

RowHeights(imgs, y) == {d.n : d \in {e \in Range(imgs) : e.y + e.n = y}}

\* a step of the image loop that ends a row: x goes back to the left margin
\* on the same page
RowWrap ==
    /\ AtGoodImage
    /\ x_offset # left_margin
    /\ x_offset' = left_margin
    /\ c'.pages = c.pages

\* C2: when a row of images ends, x is reset to the left margin and y moves
\* down by the height of the tallest image placed in that row plus the gap.
C2_RowHeightIsTallest ==
    [][RowWrap => y_pos' = y_pos - (MaxOf(RowHeights(c'.imgs, y_pos)) + gap)]_vars

\* C3: for a decodable image with y_pos - img_h < 50 the page break comes
\* first (y at the top margin, x at the left margin, row counter zero) and
\* the image is then drawn on the new page, and on no other; without the
\* test firing the image is drawn at the cursor on the page in hand.
C3_PageBreakBeforeImage ==
    [][AtGoodImage =>
        LET img_h == ImgH(image_files[idx + 1])
        IN  IF y_pos - img_h < 50
            THEN /\ c'.ops = <<ShowPage,
                               Op("image", left_margin, TopY - img_h, img_h, "")>>
                 /\ c'.pages = c.pages + 1
                 /\ c'.imgs = <<Op("image", left_margin, TopY - img_h, img_h, "")>>
                 /\ count' = 1
                 /\ x_offset' = left_margin + img_max_w + gap
                 /\ y_pos' = TopY
            ELSE /\ c'.ops = <<Op("image", x_offset, y_pos - img_h, img_h, "")>>
                 /\ c'.pages = c.pages]_vars

\* C3 witness: the second image of a row did not fit, the page was broken
\* and the image was drawn first in a row of the new page
C3_Witness ==
    /\ pc = "image_loop"
    /\ idx >= 2
    /\ Len(c.ops) = 2
    /\ IsShow(c.ops[1])
    /\ c.ops[2].what = "image"
    /\ c.drawn >= 2
    /\ Len(c.imgs) = 1
    /\ count = 1

\* the last step drew a summary line that took y below the threshold
SummaryCrossed ==
    /\ Len(c.ops) > 0
    /\ c.ops[1].what = "summary_line"
    /\ c.ops[1].y - 16 < 120

\* C4 as stated: a summary that crosses the threshold starts a second page
\* and the survey header is drawn again, as continued, on that page.
C4_ContinuedHeaderOnSummaryPage ==
    SummaryCrossed =>
        /\ c.pages >= 1
        /\ \E k \in 1..Len(c.ops) :
              /\ k > LastShow(c.ops)
              /\ c.ops[k].what = "survey_continued"

\* C4 as amended: a summary that crosses the threshold starts a second page
\* with the cursor at its top margin, and nothing is drawn on that page by
\* the page break: no survey header, continued or not.
C4_SummaryBreakPlain ==
    SummaryCrossed =>
        /\ c.pages >= 1
        /\ Len(c.ops) = 2
        /\ IsShow(c.ops[2])
        /\ y_pos = TopY
        /\ ~Has(c.ops, "survey_continued")
        /\ ~Has(c.ops, "survey_header")

\* C4 witness: the nine entries without comments, then a summary line that
\* crosses the threshold on page 1
C4_Witness ==
    /\ SummaryCrossed
    /\ c.pages = 1
    /\ j = 22

\* C5: with no temperature the header still holds a temperature entry, whose
\* value is the placeholder "N/A".
C5_TemperaturePlaceholder ==
    (pc = "survey_header" /\ temperature_f = None) =>
        \E k \in 1..Len(c.ops) : c.ops[k].what = "temp" /\ c.ops[k].tok = "N/A"

IsPermutation(s, t) ==
    /\ Len(s) = Len(t)
    /\ Range(s) = Range(t)

C7_NoBreakWithoutImages ==
    [][(pc = "images" /\ image_files = <<>>) => c'.pages = c.pages]_vars

\* C8: no path through the handler ends with the temporary file on disk.
C8_TempFileReleased ==
    pc \in {"rejected", "raised", "done"} => ~tmp_pdf

\* C9: with exactly nine entries the survey loop breaks no page: the
\* continued header is never drawn, and the survey header, the nine entries
\* and the summary header are all drawn on page 1.
C9_SurveyOnPageOne ==
    Len(survey_responses) = 9 =>
        /\ ~Has(c.ops, "survey_continued")
        /\ pc = "survey" => c.pages = 0
        /\ (pc = "summary" /\ j = 0) => (c.pages = 0 /\ Has(c.ops, "summary_header"))

\* C9 witness: address and temperature present and a comment under each of
\* the nine entries, the summary header just drawn
C9_Witness ==
    /\ Len(survey_responses) = 9
    /\ pc = "summary"
    /\ j = 0
    /\ y_pos = height - 100 - 60 - 20 - 9 * 32 - 20

\* C10: no text of the survey or of the summary is drawn below the bottom
\* margin: question and summary lines at y >= 120, comments at y >= 102,
\* the summary header at y >= 200.
C10_TextAboveMargin ==
    \A k \in 1..Len(c.ops) :
        /\ c.ops[k].what \in {"question", "summary_line"} => c.ops[k].y >= 120
        /\ c.ops[k].what = "comment" => c.ops[k].y >= 102
        /\ c.ops[k].what = "summary_header" => c.ops[k].y >= 200

\* C10 witness: the survey loop broke a page and went on below the
\* continued header
C10_Witness ==
    /\ pc = "survey"
    /\ c.pages = 1
    /\ c.ops[1].what = "question"
    /\ c.ops[1].y = TopY - 20

====
